---------------------------- MODULE Spec2Model ----------------------------
(***************************************************************************)
(* Model of the crafting-calculator backend (src/server.js, src/schema.sql) *)
(*                                                                         *)
(* The state is the content of the two SQLite tables plus the last request  *)
(* served and the response sent for it.  Every analytical route is one      *)
(* action: it reads both tables, computes its result exactly as the handler *)
(* does (JavaScript number semantics included: Infinity, NaN, the `||`      *)
(* defaults, Array.prototype.sort with a numeric comparator, and the JSON   *)
(* encoding done by res.json) and stores the response.                      *)
(***************************************************************************)
EXTENDS Integers, Sequences, FiniteSets, TLC

VARIABLES
    recipes,            \* rows of table recipes, in the order SELECT returns them
    recipe_materials,   \* rows of table recipe_materials, same
    request,            \* the request being answered
    response,           \* the response sent (status + JSON body)
    sqlite_sequence,    \* largest id ever given to a recipe (AUTOINCREMENT)
    transaction,        \* the open transaction of the connection: what ROLLBACK restores
    inflight,           \* the create / update / delete requests, each with its position
    committed_seen      \* history: the catalogues that have been the committed one

vars == <<recipes, recipe_materials, request, response,
          sqlite_sequence, transaction, inflight, committed_seen>>

\* what the routes that only read leave alone, besides the tables
writes == <<sqlite_sequence, transaction, inflight, committed_seen>>

(***************************************************************************)
(* Bounds of the model                                                     *)
(***************************************************************************)
MaxQty == 2         \* largest per-craft quantity of a material line
MaxHeld == 2        \* largest quantity of one inventory entry
MaxLines == 2       \* most material lines of the recipe under study
MaxInv == 2         \* most entries of a caller-supplied inventory list
MaxRecipes == 2     \* most recipes of a catalogue used for ordering
MaxPrice == 1       \* largest npc_sell_price / default_npc_price
MaxTokens == 2      \* most comma-separated tokens of a materialTypes query
MaxShapes == 3      \* most entries of an inventory list of arbitrary shapes
MaxUsageRows == 2   \* most material lines of a catalogue whose usage is summed

(***************************************************************************)
(* JavaScript values that are not integers.  All quantities of the model    *)
(* are far below these codes; they are only ever compared through the       *)
(* Js* operators below, never with < directly.                              *)
(***************************************************************************)
Infinity == 1000001
NaN == 1000002
Null == 1000003

\* a < b on JS numbers (no negative infinity arises in the handlers)
JsLt(a, b) ==
    IF a = NaN \/ b = NaN THEN FALSE
    ELSE IF a = Infinity THEN FALSE
    ELSE IF b = Infinity THEN TRUE
    ELSE a < b

\* a > b on JS numbers
JsGt(a, b) == JsLt(b, a)

\* x || d : d replaces a falsy number (0, NaN, null/undefined)
JsOr(x, d) == IF x = 0 \/ x = NaN \/ x = Null THEN d ELSE x

\* Math.floor(a / b) for a >= 0 finite, b >= 0 finite
FloorDivMod(a, b) == IF b = 0 THEN (IF a = 0 THEN NaN ELSE Infinity) ELSE a % b
FloorDiv(a, b) == IF b = 0 THEN (IF a = 0 THEN NaN ELSE Infinity) ELSE a \div b

\* a * b where a may be Infinity and b is finite and >= 0
JsMul(a, b) ==
    IF a = NaN THEN NaN
    ELSE IF a = Infinity THEN (IF b = 0 THEN NaN ELSE Infinity)
    ELSE a * b

\* JSON.stringify of a number: Infinity and NaN are written as null
JsonNumber(x) == IF x = Infinity \/ x = NaN THEN Null ELSE x

(***************************************************************************)
(* Strings: String.prototype.toLowerCase and trim on the strings used       *)
(***************************************************************************)
ToLowerCase(s) ==
    CASE s = "Herb" -> "herb"
      [] s = "HERB" -> "herb"
      [] s = "Vial" -> "vial"
      [] s = "VIAL" -> "vial"
      [] s = "DROP" -> "drop"
      [] s = "Buy" -> "buy"
      [] s = " Profession" -> " profession"
      [] OTHER -> s

Trim(s) ==
    CASE s = " profession" -> "profession"
      [] s = " " -> ""
      [] OTHER -> s

(***************************************************************************)
(* Sequence helpers (Array.prototype.filter / map / some / every)           *)
(***************************************************************************)
RECURSIVE SelectRows(_, _, _)
\* rows of table whose field f equals v, in table order
SelectRows(rows, f, v) ==
    IF rows = <<>> THEN <<>>
    ELSE IF Head(rows)[f] = v
         THEN <<Head(rows)>> \o SelectRows(Tail(rows), f, v)
         ELSE SelectRows(Tail(rows), f, v)

Range(s) == {s[i] : i \in DOMAIN s}

SeqsUpTo(S, n) == UNION {[1..k -> S] : k \in 0..n}

\* allMaterials.filter(m => m.recipe_id === recipe.id), with only the first hit kept
FirstMaterialOfRecipe(allMaterials, id) ==
    LET hits == SelectRows(allMaterials, "recipe_id", id)
    IN  IF hits = <<>> THEN <<>> ELSE <<Head(hits)>>

\* allMaterials.filter(m => m.recipe_id === recipe.id)
MaterialsOfRecipe(allMaterials, id) == SelectRows(allMaterials, "recipe_id", id)

(***************************************************************************)
(* The inventory built from the request body (reduce)                      *)
(***************************************************************************)
\* the shape test without the comparison mat.quantity >= 0
ValidEntryAnySign(mat) ==
    /\ mat.material_name # ""
    /\ mat.typeof_quantity = "number"

\* the shape test of one entry
ValidEntry(mat) ==
    /\ mat.material_name # ""
    /\ mat.typeof_quantity = "number"
    /\ mat.quantity >= 0

RECURSIVE BuildInventory(_, _)
\* list.reduce((acc, mat) => ..., {}) : acc is a function on the keys present
BuildInventory(list, acc) ==
    IF list = <<>> THEN acc
    ELSE LET mat == Head(list)
             key == ToLowerCase(mat.material_name)
             old == IF key \in DOMAIN acc THEN JsOr(acc[key], 0) ELSE 0
             new == IF ValidEntry(mat)
                    THEN [k \in DOMAIN acc \cup {key} |->
                            IF k = key THEN old + mat.quantity ELSE acc[k]]
                    ELSE acc
         IN  BuildInventory(Tail(list), new)

EmptyInventory == [k \in {} |-> 0]

\* userInventory[name.toLowerCase()] || 0
UserHasQty(userInventory, material_name) ==
    LET key == ToLowerCase(material_name)
    IN  IF key \in DOMAIN userInventory THEN JsOr(userInventory[key], 0) ELSE 0


(***************************************************************************)
(* POST /api/crafting/check-possibilities                                  *)
(***************************************************************************)
RECURSIVE CraftLoop(_, _, _)
\* the for-loop over the recipe's lines; max is maxCraftsForThisRecipe so far
CraftLoop(lines, userInventory, max) ==
    IF lines = <<>>
    THEN [canCraftRecipe |-> TRUE, maxCraftsForThisRecipe |-> max]
    ELSE LET neededMat == Head(lines)
             userHasQty == UserHasQty(userInventory, neededMat.material_name)
             neededQtyPerCraft == neededMat.quantity
             possibleCraftsWithThisMaterial == FloorDiv(userHasQty, neededQtyPerCraft)
         IN  IF JsLt(userHasQty, neededQtyPerCraft)
             THEN [canCraftRecipe |-> FALSE, maxCraftsForThisRecipe |-> 0]
             ELSE CraftLoop(Tail(lines), userInventory,
                            IF JsLt(possibleCraftsWithThisMaterial, max)
                            THEN possibleCraftsWithThisMaterial ELSE max)

RECURSIVE MaterialsNeededOfOneCraft(_, _, _)
\* materials_needed with the quantities of one craft as totals
MaterialsNeededOfOneCraft(lines, userInventory, max) ==
    IF lines = <<>> THEN <<>>
    ELSE LET m == Head(lines)
         IN  <<[material_name |-> m.material_name,
                quantity_per_craft |-> m.quantity,
                total_quantity_needed_for_max_crafts |-> m.quantity,
                user_has_quantity |-> UserHasQty(userInventory, m.material_name)]>>
             \o MaterialsNeededOfOneCraft(Tail(lines), userInventory, max)

\* materials_needed of a pushed item
RECURSIVE MaterialsNeeded(_, _, _)
MaterialsNeeded(lines, userInventory, max) ==
    IF lines = <<>> THEN <<>>
    ELSE LET m == Head(lines)
         IN  <<[material_name |-> m.material_name,
                quantity_per_craft |-> m.quantity,
                total_quantity_needed_for_max_crafts |-> JsMul(max, m.quantity),
                user_has_quantity |-> UserHasQty(userInventory, m.material_name)]>>
             \o MaterialsNeeded(Tail(lines), userInventory, max)

\* the item pushed for a recipe without material lines
UnboundedItem(recipe) ==
    [recipe_id |-> recipe.id,
     recipe_name |-> recipe.name,
     quantity_produced_per_craft |-> recipe.quantity_produced,
     max_crafts_possible |-> Infinity,
     materials_needed |-> <<>>]

\* a zero-line recipe handled by the loop like any other (no early push)
CraftableItemsOfRecipeNoEarlyPush(recipe, allMaterials, userInventory) ==
    LET materialsNeededForRecipe == MaterialsOfRecipe(allMaterials, recipe.id)
        r == CraftLoop(materialsNeededForRecipe, userInventory, Infinity)
        max == r.maxCraftsForThisRecipe
    IN  IF r.canCraftRecipe /\ JsGt(max, 0) /\ max # Infinity
        THEN <<[recipe_id |-> recipe.id,
                recipe_name |-> recipe.name,
                quantity_produced_per_craft |-> recipe.quantity_produced,
                max_crafts_possible |-> max,
                total_items_producible |-> JsMul(max, recipe.quantity_produced),
                materials_needed |->
                    MaterialsNeeded(materialsNeededForRecipe, userInventory, max)]>>
        ELSE <<>>

\* the body of recipes.forEach: the items (none or one) pushed for one recipe
CraftableItemsOfRecipe(recipe, allMaterials, userInventory) ==
    LET materialsNeededForRecipe == MaterialsOfRecipe(allMaterials, recipe.id)
        r == CraftLoop(materialsNeededForRecipe, userInventory, Infinity)
        max == r.maxCraftsForThisRecipe
    IN  IF materialsNeededForRecipe = <<>> THEN <<UnboundedItem(recipe)>>
        ELSE IF r.canCraftRecipe /\ JsGt(max, 0) /\ max # Infinity
        THEN <<[recipe_id |-> recipe.id,
                recipe_name |-> recipe.name,
                quantity_produced_per_craft |-> recipe.quantity_produced,
                max_crafts_possible |-> max,
                total_items_producible |-> JsMul(max, recipe.quantity_produced),
                materials_needed |->
                    MaterialsNeeded(materialsNeededForRecipe, userInventory, max)]>>
        ELSE <<>>

RECURSIVE CraftableItems(_, _, _)
\* craftableItems after recipes.forEach
CraftableItems(rs, allMaterials, userInventory) ==
    IF rs = <<>> THEN <<>>
    ELSE CraftableItemsOfRecipe(Head(rs), allMaterials, userInventory)
         \o CraftableItems(Tail(rs), allMaterials, userInventory)

\* sign of the comparator (a,b) => b.max_crafts_possible - a.max_crafts_possible;
\* Infinity - Infinity is NaN, which sort treats as 0
CompareMaxCrafts(a, b) ==
    LET x == a.max_crafts_possible
        y == b.max_crafts_possible
    IN  IF x = Infinity /\ y = Infinity THEN 0
        ELSE IF x = Infinity THEN -1
        ELSE IF y = Infinity THEN 1
        ELSE IF y - x < 0 THEN -1
        ELSE IF y - x > 0 THEN 1
        ELSE 0

RECURSIVE InsertByMaxCrafts(_, _)
\* e placed behind every element that does not have to follow it (stable)
InsertByMaxCrafts(sorted, e) ==
    IF sorted = <<>> THEN <<e>>
    ELSE IF CompareMaxCrafts(Head(sorted), e) > 0
         THEN <<e>> \o sorted
         ELSE <<Head(sorted)>> \o InsertByMaxCrafts(Tail(sorted), e)

RECURSIVE SortByMaxCrafts(_, _)
\* the array sorted by Array.prototype.sort (stable) with CompareMaxCrafts
SortByMaxCrafts(items, sorted) ==
    IF items = <<>> THEN sorted
    ELSE SortByMaxCrafts(Tail(items), InsertByMaxCrafts(sorted, Head(items)))

\* res.json of the item list: every number goes through JSON.stringify
CraftableJson(items) ==
    [i \in DOMAIN items |->
        [items[i] EXCEPT !.max_crafts_possible = JsonNumber(@)]]

\* the whole handler: request body -> response
CheckPossibilities(body, rs, allMaterials) ==
    LET availableMaterials == body.items
        userInventory == BuildInventory(availableMaterials, EmptyInventory)
    IN  IF ~body.is_array
        THEN [status |-> 400, error |-> "array-required"]
        ELSE IF DOMAIN userInventory = {} /\ Len(availableMaterials) > 0
        THEN [status |-> 400, error |-> "no-valid-material"]
        ELSE IF rs = <<>>
        THEN [status |-> 200, body |-> <<>>]
        ELSE [status |-> 200,
              body |-> CraftableJson(
                  SortByMaxCrafts(CraftableItems(rs, allMaterials, userInventory), <<>>))]

(***************************************************************************)
(* POST /api/crafting/analyze-potential-crafts                             *)
(***************************************************************************)
\* userInventory[key] read as a truth value instead of hasOwnProperty(key)
InventoryHasTruthy(userInventory, material_name) ==
    /\ ToLowerCase(material_name) \in DOMAIN userInventory
    /\ userInventory[ToLowerCase(material_name)] # 0

\* userInventory.hasOwnProperty(neededMat.material_name.toLowerCase())
InventoryHas(userInventory, material_name) ==
    ToLowerCase(material_name) \in DOMAIN userInventory

\* recipeUsesAnyUserMaterial
RecipeUsesAnyUserMaterial(lines, userInventory) ==
    IF DOMAIN userInventory # {}
    THEN \E i \in DOMAIN lines : InventoryHas(userInventory, lines[i].material_name)
    ELSE TRUE

\* neededMat.quantity - userHasQty, not clamped at 0
QuantityMissingUnclamped(needed, userHasQty) == needed - userHasQty

\* Math.max(0, neededMat.quantity - userHasQty)
QuantityMissingForOneCraft(needed, userHasQty) ==
    IF needed - userHasQty > 0 THEN needed - userHasQty ELSE 0

RECURSIVE AnalysisLoop(_, _, _, _)
\* the side effects of the materialsNeededForThisRecipe.map callback:
\* craftableNowCount and canCraftAnyWithCurrentMaterials after the last line
AnalysisLoop(lines, userInventory, count, canCraft) ==
    IF lines = <<>>
    THEN [craftableNowCount |-> count, canCraftAnyWithCurrentMaterials |-> canCraft]
    ELSE LET neededMat == Head(lines)
             userHasQty == UserHasQty(userInventory, neededMat.material_name)
             possibleCraftsWithThisMaterial == FloorDiv(userHasQty, neededMat.quantity)
         IN  AnalysisLoop(Tail(lines), userInventory,
                 IF neededMat.quantity > 0
                    /\ JsLt(possibleCraftsWithThisMaterial, count)
                 THEN possibleCraftsWithThisMaterial ELSE count,
                 canCraft /\ ~JsLt(userHasQty, neededMat.quantity))

\* the value returned by the map callback for each line
MaterialsAnalysis(lines, userInventory) ==
    [i \in DOMAIN lines |->
        LET neededMat == lines[i]
            userHasQty == UserHasQty(userInventory, neededMat.material_name)
        IN  [material_name |-> neededMat.material_name,
             material_type |-> neededMat.material_type,
             quantity_needed_per_craft |-> neededMat.quantity,
             user_has_quantity |-> userHasQty,
             quantity_missing_for_one_craft |->
                 QuantityMissingForOneCraft(neededMat.quantity, userHasQty)]]

RECURSIVE TempMaxCrafts(_, _, _)
\* the second loop, run when the count is still Infinity
TempMaxCrafts(lines, userInventory, tempMaxCrafts) ==
    IF lines = <<>> THEN tempMaxCrafts
    ELSE LET neededMat == Head(lines)
             userHasQty == UserHasQty(userInventory, neededMat.material_name)
             floor == FloorDiv(userHasQty, neededMat.quantity)
         IN  IF JsLt(userHasQty, neededMat.quantity) THEN 0
             ELSE TempMaxCrafts(Tail(lines), userInventory,
                     IF neededMat.quantity > 0 /\ JsLt(floor, tempMaxCrafts)
                     THEN floor ELSE tempMaxCrafts)

\* craftableNowCount as pushed
CraftableNowCount(lines, userInventory) ==
    LET r == AnalysisLoop(lines, userInventory, Infinity, TRUE)
        temp == TempMaxCrafts(lines, userInventory, Infinity)
    IN  IF ~r.canCraftAnyWithCurrentMaterials THEN 0
        ELSE IF Len(lines) = 0 THEN Infinity
        ELSE IF r.craftableNowCount = Infinity
        THEN (IF Len(lines) > 0
              THEN (IF temp = Infinity /\ Len(lines) > 0 THEN 0 ELSE temp)
              ELSE Infinity)
        ELSE r.craftableNowCount

\* the body of recipes.forEach: the results (none or one) pushed for one recipe
AnalysisOfRecipe(recipe, allMaterials, userInventory) ==
    LET materialsNeededForThisRecipe == MaterialsOfRecipe(allMaterials, recipe.id)
    IN  IF ~RecipeUsesAnyUserMaterial(materialsNeededForThisRecipe, userInventory)
           /\ DOMAIN userInventory # {}
        THEN <<>>
        ELSE <<[recipe_id |-> recipe.id,
                recipe_name |-> recipe.name,
                quantity_produced_per_craft |-> recipe.quantity_produced,
                materials_analysis |->
                    MaterialsAnalysis(materialsNeededForThisRecipe, userInventory),
                craftable_now_count |->
                    CraftableNowCount(materialsNeededForThisRecipe, userInventory)]>>

RECURSIVE AnalysisResults(_, _, _)
\* analysisResults after recipes.forEach
AnalysisResults(rs, allMaterials, userInventory) ==
    IF rs = <<>> THEN <<>>
    ELSE AnalysisOfRecipe(Head(rs), allMaterials, userInventory)
         \o AnalysisResults(Tail(rs), allMaterials, userInventory)

\* res.json of the analysis list
AnalysisJson(items) ==
    [i \in DOMAIN items |->
        [items[i] EXCEPT !.craftable_now_count = JsonNumber(@)]]

\* the whole handler: request body -> response
AnalyzePotentialCrafts(body, rs, allMaterials) ==
    LET userMaterials == body.items
        userInventory == BuildInventory(userMaterials, EmptyInventory)
    IN  IF ~body.is_array
        THEN [status |-> 400, error |-> "array-required"]
        ELSE IF DOMAIN userInventory = {} /\ Len(userMaterials) > 0
        THEN [status |-> 400, error |-> "no-valid-material"]
        ELSE IF rs = <<>>
        THEN [status |-> 200, body |-> <<>>]
        ELSE [status |-> 200,
              body |-> AnalysisJson(AnalysisResults(rs, allMaterials, userInventory))]

(***************************************************************************)
(* Catalogues and request bodies of the crafting routes                    *)
(***************************************************************************)
\* a row of table recipes
Recipe(id, name, qp, price) ==
    [id |-> id, name |-> name, quantity_produced |-> qp, npc_sell_price |-> price]

\* a row of table recipe_materials
Material(rid, name, qty, type, price) ==
    [recipe_id |-> rid, material_name |-> name, quantity |-> qty,
     material_type |-> type, default_npc_price |-> price]

RECURSIVE RowsOf(_, _)
\* the recipe_materials rows of recipes 1..Len(lineLists): recipe i owns lineLists[i]
RowsOf(lineLists, i) ==
    IF i > Len(lineLists) THEN <<>>
    ELSE [j \in DOMAIN lineLists[i] |-> [lineLists[i][j] EXCEPT !.recipe_id = i]]
         \o RowsOf(lineLists, i + 1)

RecipeNames == {"Elixir", "Potion", "Tonic"}

\* material lines a recipe of the crafting catalogues may have.  Quantity 0 is
\* a value the table can hold: the schema has no CHECK on quantity, and the
\* create/update validation (!mat.quantity) lets the string "0" through, which
\* the INTEGER column stores as 0.
CraftLines ==
    {Material(0, "Herb", q, "drop", 0) : q \in 0..MaxQty}
    \cup {Material(0, "Vial", q, "drop", 0) : q \in 1..MaxQty}

\* one recipe "Potion" with up to MaxLines arbitrary lines
StudyCatalogues ==
    {[recipes |-> <<Recipe(1, "Potion", 2, 5)>>, lines |-> <<ls>>] :
        ls \in SeqsUpTo(CraftLines, MaxLines)}

\* up to MaxRecipes recipes with distinct names in any order, each with no line
\* or one line of Herb
OrderLines == {<<>>} \cup {<<Material(0, "Herb", q, "drop", 0)>> : q \in 1..MaxQty}

OrderCatalogues ==
    UNION {
        {[recipes |-> [i \in 1..k |-> Recipe(i, names[i], 1, 0)], lines |-> ls] :
            names \in {f \in [1..k -> RecipeNames] :
                          \A i, j \in 1..k : i # j => f[i] # f[j]},
            ls \in [1..k -> OrderLines]}
        : k \in 0..MaxRecipes}

\* an entry of availableMaterials / userMaterials
InventoryEntries ==
    {[material_name |-> "HERB", typeof_quantity |-> "number", quantity |-> q] :
        q \in 0..MaxHeld}
    \cup {[material_name |-> "Vial", typeof_quantity |-> "number", quantity |-> q] :
        q \in 1..MaxHeld}
    \cup {[material_name |-> "", typeof_quantity |-> "number", quantity |-> 1]}

\* request bodies: the field is an array of entries, or is missing / no array
\* an inventory with larger quantities: 7 of Herb and 3 of Vial
LargeInventory ==
    <<[material_name |-> "Herb", typeof_quantity |-> "number", quantity |-> 7],
      [material_name |-> "Vial", typeof_quantity |-> "number", quantity |-> 3]>>

InventoryBodies ==
    {[is_array |-> TRUE, items |-> l] :
        l \in SeqsUpTo(InventoryEntries, MaxInv) \cup {LargeInventory}}
    \cup {[is_array |-> FALSE, items |-> <<>>]}

NoRequest == [route |-> "none"]
NoResponse == [status |-> 0]

\* the connection db is shared by all handlers; a create / update / delete
\* request in flight occupies one of these places
Writers == {"w1", "w2"}

NoTransaction == [open |-> FALSE]

\* a place without request
Free == [op |-> "none", pc |-> "free"]

\* the largest id of the rows of rs, 0 without rows
MaxRecipeId(rs) ==
    IF rs = <<>> THEN 0
    ELSE CHOOSE m \in {rs[k].id : k \in DOMAIN rs} :
            \A k \in DOMAIN rs : rs[k].id <= m

\* the catalogue that is committed: the tables, or what they were at BEGIN
CommittedOf(rs, materials, txn) ==
    IF ~txn.open THEN [recipes |-> rs, recipe_materials |-> materials]
    ELSE [recipes |-> txn.recipes, recipe_materials |-> txn.recipe_materials]

\* no write request in flight, no transaction open
NoWrites ==
    /\ sqlite_sequence = MaxRecipeId(recipes)
    /\ transaction = NoTransaction
    /\ inflight = [w \in Writers |-> Free]
    /\ committed_seen = {CommittedOf(recipes, recipe_materials, NoTransaction)}

\* the tables hold c
Holds(c) ==
    /\ recipes = c.recipes
    /\ recipe_materials = RowsOf(c.lines, 1)

InitOrder ==
    /\ \E c \in OrderCatalogues : Holds(c)
    /\ request = NoRequest
    /\ response = NoResponse
    /\ NoWrites

InitCraft ==
    /\ \E c \in StudyCatalogues :
          Holds(c)
    /\ request = NoRequest
    /\ response = NoResponse
    /\ NoWrites

\* Requests are served one at a time: a handler runs from the idle state and
\* the exchange ends (ExchangeDone) before the next one is taken up.
PostCheckPossibilities ==
    /\ request = NoRequest
    /\ \E body \in InventoryBodies :
            /\ request' = [route |-> "check-possibilities", body |-> body]
            /\ response' = CheckPossibilities(body, recipes, recipe_materials)
            /\ UNCHANGED <<recipes, recipe_materials, writes>>

PostAnalyzePotentialCrafts ==
    /\ request = NoRequest
    /\ \E body \in InventoryBodies :
            /\ request' = [route |-> "analyze-potential-crafts", body |-> body]
            /\ response' = AnalyzePotentialCrafts(body, recipes, recipe_materials)
            /\ UNCHANGED <<recipes, recipe_materials, writes>>

\* the response has been written; the server is idle again
ExchangeDone ==
    /\ request # NoRequest
    /\ response # NoResponse
    /\ request' = NoRequest
    /\ response' = NoResponse
    /\ UNCHANGED <<recipes, recipe_materials, writes>>

NextCraft == PostCheckPossibilities \/ PostAnalyzePotentialCrafts \/ ExchangeDone

NextCheck == PostCheckPossibilities \/ ExchangeDone

NextAnalysis == PostAnalyzePotentialCrafts \/ ExchangeDone

\* check-possibilities over the catalogues of one recipe
SpecCraft == InitCraft /\ [][NextCheck]_vars

\* analyze-potential-crafts over the catalogues of one recipe
SpecAnalysis == InitCraft /\ [][NextAnalysis]_vars

\* both crafting routes over the catalogues of several simple recipes
SpecOrder == InitOrder /\ [][NextCraft]_vars

(***************************************************************************)
(* Properties of the crafting routes.  They are stated on the tables, the   *)
(* request body and the response, without the handlers' own loops.          *)
(***************************************************************************)
CheckServed == request.route = "check-possibilities" /\ response.status = 200
AnalysisServed == request.route = "analyze-potential-crafts" /\ response.status = 200

\* the material lines of recipe id, as positions in the table
LinesOf(id) == {i \in DOMAIN recipe_materials : recipe_materials[i].recipe_id = id}

RECURSIVE HeldIn(_, _)
\* quantity held of a material: the valid entries of that name, case-insensitively
HeldIn(items, name) ==
    IF items = <<>> THEN 0
    ELSE (IF ValidEntry(Head(items))
             /\ ToLowerCase(Head(items).material_name) = ToLowerCase(name)
          THEN Head(items).quantity ELSE 0) + HeldIn(Tail(items), name)

Held(name) == HeldIn(request.body.items, name)

\* line i of the table is short under the request's inventory
Short(i) == Held(recipe_materials[i].material_name) < recipe_materials[i].quantity

\* the lines of recipe id that consume something
Consuming(id) == {i \in LinesOf(id) : recipe_materials[i].quantity > 0}

\* min over the consuming lines of floor(held / quantity); Null when there is none
MinFloor(id) ==
    LET f(i) == Held(recipe_materials[i].material_name) \div recipe_materials[i].quantity
    IN  IF Consuming(id) = {} THEN Null
        ELSE CHOOSE m \in {f(i) : i \in Consuming(id)} :
                \A i \in Consuming(id) : m <= f(i)

\* the count the feasibility rule gives; Null stands for unbounded
RuleCount(id) ==
    IF LinesOf(id) = {} THEN Null
    ELSE IF \E i \in LinesOf(id) : Short(i) THEN 0
    ELSE MinFloor(id)

\* the entries of a response body that report recipe id
EntriesOf(body, id) == {i \in DOMAIN body : body[i].recipe_id = id}

\* C1: in a check-possibilities answer, a recipe with a line whose held quantity
\* is below the per-craft quantity has maxCraftsForThisRecipe = 0 and is not in
\* the craftable-now list, whatever its other lines.
C1_ShortLineExcluded ==
    CheckServed =>
        \A k \in DOMAIN recipes :
            (\E i \in LinesOf(recipes[k].id) : Short(i)) =>
                /\ EntriesOf(response.body, recipes[k].id) = {}
                /\ CraftLoop(MaterialsOfRecipe(recipe_materials, recipes[k].id),
                             BuildInventory(request.body.items, EmptyInventory),
                             Infinity).maxCraftsForThisRecipe = 0

\* a recipe whose second line is short while its first line is amply held
C1_Witness ==
    /\ CheckServed
    /\ \E i, j \in LinesOf(1) :
          /\ i < j
          /\ Short(j)
          /\ recipe_materials[i].quantity > 0
          /\ Held(recipe_materials[i].material_name) >= 2 * recipe_materials[i].quantity
    /\ EntriesOf(response.body, 1) = {}

\* C2: in a check-possibilities answer, a recipe with at least one line and no
\* short line is listed with max_crafts_possible = min floor(held / quantity)
\* over its lines of quantity > 0, and as unbounded when all its lines have
\* quantity 0.
C2_MinOfFloors ==
    CheckServed =>
        \A k \in DOMAIN recipes :
            (/\ LinesOf(recipes[k].id) # {}
             /\ \A i \in LinesOf(recipes[k].id) : ~Short(i)) =>
                /\ EntriesOf(response.body, recipes[k].id) # {}
                /\ \A e \in EntriesOf(response.body, recipes[k].id) :
                      response.body[e].max_crafts_possible = MinFloor(recipes[k].id)

\* the part of C2 about lines that consume something: with no short line and at
\* least one line of quantity > 0 the recipe is listed with the minimum
C2_MinOfFloorsWhenConsuming ==
    CheckServed =>
        \A k \in DOMAIN recipes :
            (/\ Consuming(recipes[k].id) # {}
             /\ \A i \in LinesOf(recipes[k].id) : ~Short(i)) =>
                /\ Cardinality(EntriesOf(response.body, recipes[k].id)) = 1
                /\ \A e \in EntriesOf(response.body, recipes[k].id) :
                      response.body[e].max_crafts_possible = MinFloor(recipes[k].id)

\* C3: in a check-possibilities answer every recipe without material lines is
\* listed once, as unbounded (max_crafts_possible Infinity, null in the JSON
\* body), and no recipe with lines is listed as unbounded.
C3_ZeroLinesUnbounded ==
    CheckServed =>
        \A k \in DOMAIN recipes :
            /\ LinesOf(recipes[k].id) = {} =>
                  /\ Cardinality(EntriesOf(response.body, recipes[k].id)) = 1
                  /\ \A e \in EntriesOf(response.body, recipes[k].id) :
                        response.body[e].max_crafts_possible = Null
            /\ LinesOf(recipes[k].id) # {} =>
                  \A e \in EntriesOf(response.body, recipes[k].id) :
                        response.body[e].max_crafts_possible # Null

\* the empty inventory, a recipe without lines listed as unbounded next to a
\* recipe with lines that is not listed
C3_Witness ==
    /\ CheckServed
    /\ request.body.items = <<>>
    /\ \E k, l \in DOMAIN recipes :
          /\ LinesOf(recipes[k].id) = {}
          /\ LinesOf(recipes[l].id) # {}
          /\ EntriesOf(response.body, recipes[l].id) = {}
          /\ \E e \in EntriesOf(response.body, recipes[k].id) :
                response.body[e].max_crafts_possible = Null

\* the count a response body reports for recipe id: 0 when it is not listed
CountIn(body, id) ==
    IF EntriesOf(body, id) = {} THEN 0
    ELSE body[CHOOSE e \in EntriesOf(body, id) : TRUE].max_crafts_possible

\* a <= b on reported counts, Null being unbounded
CountLeq(a, b) == b = Null \/ (a # Null /\ a <= b)

\* the inventory lists that differ from items in one material only, of which
\* more is held: one valid entry raised, or one valid entry added
Raised(items) ==
    {[items EXCEPT ![i].quantity = q] :
        i \in {j \in DOMAIN items : ValidEntry(items[j])}, q \in 1..(MaxHeld + 1)}
    \cup {Append(items, e) : e \in {x \in InventoryEntries : ValidEntry(x) /\ x.quantity > 0}}

MoreHeld(items) ==
    {l \in Raised(items) :
        \E i \in DOMAIN l : i > Len(items) \/ l[i].quantity > items[i].quantity}

\* C4: the count check-possibilities reports for a recipe (0 when the recipe is
\* not listed) does not decrease when the held quantity of one material grows
\* and the rest of the inventory stays as it is.
C4_Monotone ==
    CheckServed =>
        \A l \in MoreHeld(request.body.items) :
            LET r2 == CheckPossibilities([is_array |-> TRUE, items |-> l],
                                         recipes, recipe_materials)
            IN  /\ r2.status = 200
                /\ \A k \in DOMAIN recipes :
                      CountLeq(CountIn(response.body, recipes[k].id),
                               CountIn(r2.body, recipes[k].id))

\* a listed recipe whose count grows strictly with one more unit of a material
C4_Witness ==
    /\ CheckServed
    /\ \E k \in DOMAIN recipes :
          /\ CountIn(response.body, recipes[k].id) = 1
          /\ \E l \in MoreHeld(request.body.items) :
                CountIn(CheckPossibilities([is_array |-> TRUE, items |-> l],
                                           recipes, recipe_materials).body,
                        recipes[k].id) = 2

\* alphabetical position of a recipe name
NameRank(name) ==
    CASE name = "Elixir" -> 1
      [] name = "Potion" -> 2
      [] name = "Tonic" -> 3

\* C5: the craftable-now list is ordered by max_crafts_possible descending,
\* unbounded entries first, and entries with equal counts by recipe name
\* ascending.
C5_SortedWithNameTieBreak ==
    CheckServed =>
        \A i, j \in DOMAIN response.body :
            i < j =>
                LET a == response.body[i]
                    b == response.body[j]
                IN  /\ CountLeq(b.max_crafts_possible, a.max_crafts_possible)
                    /\ a.max_crafts_possible = b.max_crafts_possible =>
                          NameRank(a.recipe_name) < NameRank(b.recipe_name)

\* the part of C5 the sort does give: counts descending, unbounded first
C5_SortedByCount ==
    CheckServed =>
        \A i, j \in DOMAIN response.body :
            i < j => CountLeq(response.body[j].max_crafts_possible,
                              response.body[i].max_crafts_possible)

\* C6: every entry of an analysis answer has craftable_now_count equal to the
\* count of the feasibility rule: unbounded without lines, 0 with a short line,
\* else the minimum of floor(held / quantity) over the lines of quantity > 0,
\* unbounded when there is no such line.
C6_AnalysisCountIsRuleCount ==
    AnalysisServed =>
        \A e \in DOMAIN response.body :
            response.body[e].craftable_now_count = RuleCount(response.body[e].recipe_id)

\* the part of C6 that leaves out recipes whose lines all have quantity 0
C6_AnalysisCountWhenConsuming ==
    AnalysisServed =>
        \A e \in DOMAIN response.body :
            (LinesOf(response.body[e].recipe_id) = {}
             \/ Consuming(response.body[e].recipe_id) # {}) =>
                response.body[e].craftable_now_count = RuleCount(response.body[e].recipe_id)

\* the keys of the inventory built from the request
KeysHeld ==
    {ToLowerCase(request.body.items[i].material_name) :
        i \in {j \in DOMAIN request.body.items : ValidEntry(request.body.items[j])}}

\* C7: with an empty built inventory the analysis reports every recipe; with a
\* non-empty one it reports exactly the recipes of which some line names a key
\* of the inventory (whatever the quantity held); each reported recipe once.
C7_AnalysisInclusion ==
    AnalysisServed =>
        \A k \in DOMAIN recipes :
            LET n == Cardinality(EntriesOf(response.body, recipes[k].id))
                overlap == \E i \in LinesOf(recipes[k].id) :
                              ToLowerCase(recipe_materials[i].material_name) \in KeysHeld
            IN  IF KeysHeld = {} \/ overlap THEN n = 1 ELSE n = 0

\* an inventory holding 0 of Herb and nothing else: a recipe that uses Herb is
\* reported, a recipe without lines is not
C7_Witness ==
    /\ AnalysisServed
    /\ KeysHeld = {"herb"}
    /\ Held("Herb") = 0
    /\ \E k, l \in DOMAIN recipes :
          /\ LinesOf(recipes[k].id) # {}
          /\ EntriesOf(response.body, recipes[k].id) # {}
          /\ LinesOf(recipes[l].id) = {}
          /\ EntriesOf(response.body, recipes[l].id) = {}

\* the j-th material line of recipe id, in table order
NthLine(id, j) ==
    CHOOSE i \in LinesOf(id) : Cardinality({x \in LinesOf(id) : x < i}) = j - 1

\* C8: every entry of an analysis answer has one materials_analysis element per
\* line of its recipe, with quantity_missing_for_one_craft =
\* max(0, quantity - held); a reported recipe with a short line has
\* craftable_now_count 0 and is not in the craftable-now list that
\* check-possibilities gives for the same body.
C8_Shortfall ==
    AnalysisServed =>
        \A e \in DOMAIN response.body :
            LET id == response.body[e].recipe_id
                ma == response.body[e].materials_analysis
            IN  /\ Len(ma) = Cardinality(LinesOf(id))
                /\ \A j \in DOMAIN ma :
                      LET line == recipe_materials[NthLine(id, j)]
                          d == line.quantity - Held(line.material_name)
                      IN  /\ ma[j].material_name = line.material_name
                          /\ ma[j].user_has_quantity = Held(line.material_name)
                          /\ ma[j].quantity_missing_for_one_craft = IF d > 0 THEN d ELSE 0
                /\ (\E i \in LinesOf(id) : Short(i)) =>
                      /\ response.body[e].craftable_now_count = 0
                      /\ EntriesOf(CheckPossibilities(request.body, recipes,
                                                      recipe_materials).body, id) = {}

\* the scenario: Potion needs Herb:2, the caller holds Herb:1; the analysis
\* reports Potion with count 0 and shortfall 1
C8_Witness ==
    /\ AnalysisServed
    /\ Len(recipe_materials) = 1
    /\ recipe_materials[1].material_name = "Herb"
    /\ recipe_materials[1].quantity = 2
    /\ Held("Herb") = 1
    /\ Len(response.body) = 1
    /\ response.body[1].recipe_name = "Potion"
    /\ response.body[1].craftable_now_count = 0
    /\ response.body[1].materials_analysis[1].quantity_missing_for_one_craft = 1
    /\ CheckPossibilities(request.body, recipes, recipe_materials).body = <<>>

(***************************************************************************)
(* GET /api/items/most-profitable-npc                                      *)
(***************************************************************************)
\* the cost added for a line when the profession test is left out
LineCostNpcAnyType(mat) == mat.quantity * JsOr(mat.default_npc_price, 0)

\* what one pass of the for-loop adds to totalMaterialCostNpc
LineCostNpc(mat) ==
    IF mat.material_type = "profession" THEN 0
    ELSE mat.quantity * JsOr(mat.default_npc_price, 0)

RECURSIVE TotalMaterialCostNpc(_)
\* totalMaterialCostNpc after the loop over recipeMaterials
TotalMaterialCostNpc(recipeMaterials) ==
    IF recipeMaterials = <<>> THEN 0
    ELSE LineCostNpc(Head(recipeMaterials)) + TotalMaterialCostNpc(Tail(recipeMaterials))

\* the record recipes.map builds for one recipe
ProfitOfRecipe(recipe, materials) ==
    LET recipeMaterials == MaterialsOfRecipe(materials, recipe.id)
        totalMaterialCostNpc == TotalMaterialCostNpc(recipeMaterials)
        totalRevenueNpc == JsOr(recipe.npc_sell_price, 0) * JsOr(recipe.quantity_produced, 1)
    IN  [id |-> recipe.id,
         name |-> recipe.name,
         quantity_produced |-> recipe.quantity_produced,
         npc_sell_price_per_unit |-> recipe.npc_sell_price,
         total_revenue_npc |-> totalRevenueNpc,
         total_material_cost_npc |-> totalMaterialCostNpc,
         profit_npc |-> totalRevenueNpc - totalMaterialCostNpc]

RECURSIVE InsertByProfit(_, _)
\* comparator (a, b) => b.profit_npc - a.profit_npc, stable
InsertByProfit(sorted, e) ==
    IF sorted = <<>> THEN <<e>>
    ELSE IF e.profit_npc - Head(sorted).profit_npc > 0
         THEN <<e>> \o sorted
         ELSE <<Head(sorted)>> \o InsertByProfit(Tail(sorted), e)

RECURSIVE SortByProfit(_, _)
SortByProfit(items, sorted) ==
    IF items = <<>> THEN sorted
    ELSE SortByProfit(Tail(items), InsertByProfit(sorted, Head(items)))

\* the whole handler
MostProfitableNpc(rs, materials) ==
    IF rs = <<>> THEN [status |-> 200, body |-> <<>>]
    ELSE [status |-> 200,
          body |-> SortByProfit([i \in DOMAIN rs |-> ProfitOfRecipe(rs[i], materials)], <<>>)]

MaterialTypes == {"profession", "drop", "buy"}

\* lines of the recipe whose profit is studied
ProfitLines ==
    {Material(0, "Herb", q, t, p) :
        q \in {1, MaxQty}, t \in MaterialTypes, p \in 0..MaxPrice}

\* a second recipe, stored behind the first
ElixirRecipe == Recipe(2, "Elixir", 1, 1)
ElixirLines == <<Material(0, "Vial", 1, "buy", 1)>>

\* "Potion" with any output quantity (0 included), price and lines, alone or
\* followed by "Elixir"; and the empty catalogue
ProfitCatalogues ==
    {[recipes |-> <<Recipe(1, "Potion", qp, price)>> \o more.recipes,
      lines |-> <<ls>> \o more.lines] :
        qp \in {0, 1, MaxQty}, price \in 0..MaxPrice,
        ls \in SeqsUpTo(ProfitLines, MaxLines),
        more \in {[recipes |-> <<>>, lines |-> <<>>],
                  [recipes |-> <<ElixirRecipe>>, lines |-> <<ElixirLines>>]}}
    \cup {[recipes |-> <<>>, lines |-> <<>>]}

InitProfit ==
    /\ \E c \in ProfitCatalogues : Holds(c)
    /\ request = NoRequest
    /\ response = NoResponse
    /\ NoWrites

GetMostProfitableNpc ==
    /\ request = NoRequest
    /\ request' = [route |-> "most-profitable-npc"]
    /\ response' = MostProfitableNpc(recipes, recipe_materials)
    /\ UNCHANGED <<recipes, recipe_materials, writes>>

NextProfit == GetMostProfitableNpc \/ ExchangeDone

SpecProfit == InitProfit /\ [][NextProfit]_vars

ProfitServed == request.route = "most-profitable-npc" /\ response.status = 200

RECURSIVE SumCost(_)
\* sum of quantity * default_npc_price over the table rows at positions S
SumCost(S) ==
    IF S = {} THEN 0
    ELSE LET i == CHOOSE x \in S : TRUE
         IN  recipe_materials[i].quantity * recipe_materials[i].default_npc_price
             + SumCost(S \ {i})

NonProfession(id) ==
    {i \in LinesOf(id) : recipe_materials[i].material_type # "profession"}

\* C9: every recipe is reported once with total_material_cost_npc = the sum of
\* quantity * default_npc_price over its lines that are not of type profession
\* and profit_npc = npc_sell_price * quantity_produced (1 for 0) minus that sum,
\* negative or not; the answer is the one given for the catalogue without its
\* profession lines.
C9_ProfitNpc ==
    ProfitServed =>
        /\ \A k \in DOMAIN recipes :
              LET r == recipes[k]
                  es == {e \in DOMAIN response.body : response.body[e].id = r.id}
                  qp == IF r.quantity_produced = 0 THEN 1 ELSE r.quantity_produced
              IN  /\ Cardinality(es) = 1
                  /\ \A e \in es :
                        /\ response.body[e].total_material_cost_npc
                               = SumCost(NonProfession(r.id))
                        /\ response.body[e].profit_npc
                               = r.npc_sell_price * qp - SumCost(NonProfession(r.id))
        /\ response.body
              = MostProfitableNpc(recipes,
                    SelectSeq(recipe_materials,
                              LAMBDA m : m.material_type # "profession")).body

\* a recipe with a priced profession line and a priced drop line, sold at a loss
C9_Witness ==
    /\ ProfitServed
    /\ \E i, j \in LinesOf(1) :
          /\ recipe_materials[i].material_type = "profession"
          /\ recipe_materials[i].default_npc_price > 0
          /\ recipe_materials[j].material_type = "drop"
          /\ recipe_materials[j].default_npc_price > 0
    /\ \E e \in DOMAIN response.body :
          /\ response.body[e].id = 1
          /\ response.body[e].profit_npc < 0
          /\ response.body[e].total_material_cost_npc > 0

(***************************************************************************)
(* GET /api/items/filter-by-material-profile                               *)
(***************************************************************************)
\* The materialTypes query string is kept as the sequence of its pieces
\* between commas (what split(',') returns); the string is empty exactly when
\* it is the single piece "".
RECURSIVE TypesArrayNoLowerCase(_)
\* the pieces trimmed and filtered, the string not lower-cased
TypesArrayNoLowerCase(tokens) ==
    IF tokens = <<>> THEN <<>>
    ELSE LET t == Trim(Head(tokens))
         IN  (IF t = "" THEN <<>> ELSE <<t>>) \o TypesArrayNoLowerCase(Tail(tokens))

RECURSIVE TypesArray(_)
\* materialTypesQuery.toLowerCase().split(',').map(t => t.trim()).filter(t => t)
TypesArray(tokens) ==
    IF tokens = <<>> THEN <<>>
    ELSE LET t == Trim(ToLowerCase(Head(tokens)))
         IN  (IF t = "" THEN <<>> ELSE <<t>>) \o TypesArray(Tail(tokens))

ValidProfiles == {"exclusive", "contains_any", "contains_all", "not_contains_any"}

\* the switch on matchProfile
SwitchMatch(recipeMats, typesArray, matchProfile) ==
    LET in(m) == ToLowerCase(m.material_type) \in Range(typesArray)
    IN  CASE matchProfile = "exclusive" ->
                \A i \in DOMAIN recipeMats : in(recipeMats[i])
          [] matchProfile = "contains_any" ->
                \E i \in DOMAIN recipeMats : in(recipeMats[i])
          [] matchProfile = "contains_all" ->
                \A j \in DOMAIN typesArray :
                    \E i \in DOMAIN recipeMats :
                        ToLowerCase(recipeMats[i].material_type) = typesArray[j]
          [] matchProfile = "not_contains_any" ->
                ~\E i \in DOMAIN recipeMats : in(recipeMats[i])
          [] OTHER -> FALSE

\* the switch applied to every recipe, without the tests on an empty line list
ProfileMatchesUnguarded(recipeMats, typesArray, matchProfile) ==
    SwitchMatch(recipeMats, typesArray, matchProfile)

\* the predicate of recipes.filter
ProfileMatches(recipeMats, typesArray, matchProfile) ==
    IF Len(recipeMats) = 0 /\ matchProfile \in {"exclusive", "not_contains_any"}
    THEN matchProfile = "not_contains_any"
    ELSE IF Len(recipeMats) = 0 THEN FALSE
    ELSE SwitchMatch(recipeMats, typesArray, matchProfile)

RECURSIVE InsertByName(_, _)
InsertByName(sorted, r) ==
    IF sorted = <<>> THEN <<r>>
    ELSE IF NameRank(r.name) < NameRank(Head(sorted).name)
         THEN <<r>> \o sorted
         ELSE <<Head(sorted)>> \o InsertByName(Tail(sorted), r)

RECURSIVE OrderByName(_, _)
\* SELECT ... FROM recipes ORDER BY name ASC
OrderByName(rs, sorted) ==
    IF rs = <<>> THEN sorted
    ELSE OrderByName(Tail(rs), InsertByName(sorted, Head(rs)))

\* ({ recipe_id, ...rest }) => rest
WithoutRecipeId(m) ==
    [material_name |-> m.material_name, quantity |-> m.quantity,
     material_type |-> m.material_type, default_npc_price |-> m.default_npc_price]

RECURSIVE FilteredRecipes(_, _, _, _)
\* recipes.filter(...).map(recipe => ({...recipe, materials: ...}))
FilteredRecipes(rs, materials, typesArray, matchProfile) ==
    IF rs = <<>> THEN <<>>
    ELSE LET recipe == Head(rs)
             recipeMats == MaterialsOfRecipe(materials, recipe.id)
         IN  (IF ProfileMatches(recipeMats, typesArray, matchProfile)
              THEN <<[id |-> recipe.id, name |-> recipe.name,
                      quantity_produced |-> recipe.quantity_produced,
                      npc_sell_price |-> recipe.npc_sell_price,
                      materials |-> [i \in DOMAIN recipeMats |->
                                        WithoutRecipeId(recipeMats[i])]]>>
              ELSE <<>>)
             \o FilteredRecipes(Tail(rs), materials, typesArray, matchProfile)

\* the handler without the test of typesArray.length
FilterByMaterialProfileNoLengthTest(query, rs, materials) ==
    LET matchProfile == IF query.matchProfile = "undefined" THEN "exclusive"
                        ELSE query.matchProfile
        typesArray == TypesArray(query.materialTypes.tokens)
    IN  IF ~query.materialTypes.present \/ query.materialTypes.tokens = <<"">>
        THEN [status |-> 400, error |-> "materialTypes-required"]
        ELSE IF matchProfile \notin ValidProfiles
        THEN [status |-> 400, error |-> "invalid-matchProfile"]
        ELSE IF rs = <<>>
        THEN [status |-> 200, body |-> <<>>]
        ELSE [status |-> 200,
              body |-> FilteredRecipes(OrderByName(rs, <<>>), materials,
                                       typesArray, matchProfile)]

\* the whole handler; query.materialTypes is [present, tokens], query.matchProfile
\* is the parameter or "undefined" when it is not given (default 'exclusive')
FilterByMaterialProfile(query, rs, materials) ==
    LET matchProfile == IF query.matchProfile = "undefined" THEN "exclusive"
                        ELSE query.matchProfile
        typesArray == TypesArray(query.materialTypes.tokens)
    IN  IF ~query.materialTypes.present \/ query.materialTypes.tokens = <<"">>
        THEN [status |-> 400, error |-> "materialTypes-required"]
        ELSE IF matchProfile \notin ValidProfiles
        THEN [status |-> 400, error |-> "invalid-matchProfile"]
        ELSE IF Len(typesArray) = 0
        THEN [status |-> 400, error |-> "no-valid-type"]
        ELSE IF rs = <<>>
        THEN [status |-> 200, body |-> <<>>]
        ELSE [status |-> 200,
              body |-> FilteredRecipes(OrderByName(rs, <<>>), materials,
                                       typesArray, matchProfile)]

\* pieces of a materialTypes string: types in several spellings, a token that
\* is no type, and the empty piece
TypeTokens == {"drop", "Buy", " Profession", "gem", ""}

\* materialTypes strings that name the three types of the schema, in two
\* spellings
FullTypeSetTokens ==
    {<<"drop", "buy", "profession">>, <<"DROP", " Profession", "Buy">>}

ProfileQueries ==
    {[materialTypes |-> mt, matchProfile |-> mp] :
        mt \in {[present |-> TRUE, tokens |-> t] :
                    t \in (SeqsUpTo(TypeTokens, MaxTokens) \ {<<>>})
                           \cup FullTypeSetTokens}
               \cup {[present |-> FALSE, tokens |-> <<>>]},
        mp \in ValidProfiles \cup {"undefined", "bogus"}}

\* lines of the recipe whose profile is studied: one per material type
ProfileLines == {Material(0, "Herb", 1, t, 0) : t \in MaterialTypes}

\* "Potion" with up to MaxLines lines, alone or followed by "Elixir" with no
\* line or with one bought material
ProfileCatalogues ==
    {[recipes |-> <<Recipe(1, "Potion", 1, 0)>> \o more.recipes,
      lines |-> <<ls>> \o more.lines] :
        ls \in SeqsUpTo(ProfileLines, MaxLines),
        more \in {[recipes |-> <<>>, lines |-> <<>>],
                  [recipes |-> <<ElixirRecipe>>, lines |-> << <<>> >>],
                  [recipes |-> <<ElixirRecipe>>, lines |-> <<ElixirLines>>]}}

InitProfile ==
    /\ \E c \in ProfileCatalogues : Holds(c)
    /\ request = NoRequest
    /\ response = NoResponse
    /\ NoWrites

GetFilterByMaterialProfile ==
    /\ request = NoRequest
    /\ \E query \in ProfileQueries :
            /\ request' = [route |-> "filter-by-material-profile", query |-> query]
            /\ response' = FilterByMaterialProfile(query, recipes, recipe_materials)
            /\ UNCHANGED <<recipes, recipe_materials, writes>>

NextProfile == GetFilterByMaterialProfile \/ ExchangeDone

SpecProfile == InitProfile /\ [][NextProfile]_vars

ProfileServed == request.route = "filter-by-material-profile" /\ response.status = 200

\* the profile in force: the parameter, 'exclusive' when it is not given
ProfileInForce ==
    IF request.query.matchProfile = "undefined" THEN "exclusive"
    ELSE request.query.matchProfile

\* C10: in a filter answer (so requestedTypes is not empty) a recipe without
\* material lines is returned when the profile is not_contains_any and is not
\* returned when it is exclusive, contains_any or contains_all.
C10_ZeroLineProfile ==
    ProfileServed =>
        /\ TypesArray(request.query.materialTypes.tokens) # <<>>
        /\ ProfileInForce \in ValidProfiles
        /\ \A k \in DOMAIN recipes :
              LinesOf(recipes[k].id) = {} =>
                  ((\E e \in DOMAIN response.body : response.body[e].id = recipes[k].id)
                   <=> ProfileInForce = "not_contains_any")

\* not_contains_any of a type that Potion uses: Elixir, without lines, is
\* returned and Potion is not
C10_Witness ==
    /\ ProfileServed
    /\ ProfileInForce = "not_contains_any"
    /\ Len(recipes) = 2
    /\ LinesOf(1) # {}
    /\ LinesOf(2) = {}
    /\ Len(response.body) = 1
    /\ response.body[1].id = 2
    /\ response.body[1].materials = <<>>

\* the types a materialTypes string asks for: its pieces trimmed, in lower
\* case, the empty ones left out
RequestedTypes(tokens) ==
    {Trim(ToLowerCase(tokens[i])) : i \in DOMAIN tokens} \ {""}

\* the ids of the recipes of a filter answer
ReturnedIds == {response.body[e].id : e \in DOMAIN response.body}

\* C11: a filter answer for the profile exclusive and the requested types
\* profession, drop and buy (in any letter case) lists exactly the recipes that
\* have at least one material line, each once.
C11_ExclusiveFullSet ==
    (/\ ProfileServed
     /\ ProfileInForce = "exclusive"
     /\ RequestedTypes(request.query.materialTypes.tokens) = MaterialTypes)
    => /\ ReturnedIds = {recipes[k].id : k \in {j \in DOMAIN recipes :
                                                  LinesOf(recipes[j].id) # {}}}
       /\ Len(response.body) = Cardinality(ReturnedIds)

\* the three types asked for in upper and mixed case: Potion, with lines of
\* two types, is returned and Elixir, without lines, is not
C11_Witness ==
    /\ ProfileServed
    /\ ProfileInForce = "exclusive"
    /\ request.query.materialTypes.tokens = <<"DROP", " Profession", "Buy">>
    /\ Len(recipes) = 2
    /\ Cardinality({recipe_materials[j].material_type :
                        j \in LinesOf(1)}) = 2
    /\ LinesOf(2) = {}
    /\ ReturnedIds = {1}

\* C12: the filter answers with an error, and no recipe list, exactly when
\* matchProfile is none of the four profiles or no requested type is left after
\* splitting, trimming and lower-casing; otherwise, also when every requested
\* type is unknown, it answers with a list of recipes of the catalogue.
C12_FilterErrors ==
    request.route = "filter-by-material-profile" =>
        LET failing == \/ ProfileInForce \notin ValidProfiles
                       \/ RequestedTypes(request.query.materialTypes.tokens) = {}
        IN  /\ failing => response.status = 400 /\ "body" \notin DOMAIN response
            /\ ~failing => /\ response.status = 200
                           /\ "error" \notin DOMAIN response
                           /\ ReturnedIds \subseteq {recipes[k].id : k \in DOMAIN recipes}

\* only an unknown type is asked for: no error, and not_contains_any returns
\* the whole catalogue
C12_Witness ==
    /\ ProfileServed
    /\ request.query.materialTypes.tokens = <<"gem">>
    /\ ProfileInForce = "not_contains_any"
    /\ LinesOf(1) # {}
    /\ Len(response.body) = Len(recipes)

\* pieces that are all empty: the answer is an error
C12_WitnessEmpty ==
    /\ request.route = "filter-by-material-profile"
    /\ request.query.materialTypes.tokens = <<"", "">>
    /\ ProfileInForce \in ValidProfiles
    /\ response.status = 400

(***************************************************************************)
(* The crafting routes under inventory lists of every shape                *)
(***************************************************************************)
\* entries of every shape: valid ones in two spellings of a name, a negative
\* quantity, a quantity that is a string, a missing or empty name
ShapeEntries ==
    {[material_name |-> "Herb", typeof_quantity |-> "number", quantity |-> q] :
        q \in 0..MaxHeld}
    \cup {[material_name |-> "HERB", typeof_quantity |-> "number", quantity |-> 1],
          [material_name |-> "Vial", typeof_quantity |-> "number", quantity |-> 1],
          [material_name |-> "Herb", typeof_quantity |-> "number", quantity |-> -1],
          [material_name |-> "Herb", typeof_quantity |-> "string", quantity |-> 1],
          [material_name |-> "", typeof_quantity |-> "number", quantity |-> 1]}

ShapeBodies ==
    {[is_array |-> TRUE, items |-> l] : l \in SeqsUpTo(ShapeEntries, MaxShapes)}
    \cup {[is_array |-> FALSE, items |-> <<>>]}

\* "Potion" with no line, with one line of Herb, or with Herb and one Vial
ShapeCatalogues ==
    {[recipes |-> <<Recipe(1, "Potion", 2, 5)>>, lines |-> <<ls>>] :
        ls \in {<<>>}
               \cup {<<Material(0, "Herb", q, "drop", 0)>> : q \in 1..MaxQty}
               \cup {<<Material(0, "Herb", q, "drop", 0),
                       Material(0, "Vial", 1, "drop", 0)>> : q \in 1..MaxQty}}

InitShape ==
    /\ \E c \in ShapeCatalogues : Holds(c)
    /\ request = NoRequest
    /\ response = NoResponse
    /\ NoWrites

PostCheckPossibilitiesShape ==
    /\ request = NoRequest
    /\ \E body \in ShapeBodies :
            /\ request' = [route |-> "check-possibilities", body |-> body]
            /\ response' = CheckPossibilities(body, recipes, recipe_materials)
            /\ UNCHANGED <<recipes, recipe_materials, writes>>

PostAnalyzePotentialCraftsShape ==
    /\ request = NoRequest
    /\ \E body \in ShapeBodies :
            /\ request' = [route |-> "analyze-potential-crafts", body |-> body]
            /\ response' = AnalyzePotentialCrafts(body, recipes, recipe_materials)
            /\ UNCHANGED <<recipes, recipe_materials, writes>>

NextShape ==
    PostCheckPossibilitiesShape \/ PostAnalyzePotentialCraftsShape \/ ExchangeDone

\* both crafting routes under inventory lists of every shape
SpecShape == InitShape /\ [][NextShape]_vars

\* the shape an entry must have: a non-empty name and a numeric quantity >= 0
ShapeOk(e) ==
    /\ e.material_name # ""
    /\ e.typeof_quantity = "number"
    /\ e.quantity >= 0

RECURSIVE WellShaped(_)
\* the entries of a list that have the shape, in their order
WellShaped(items) ==
    IF items = <<>> THEN <<>>
    ELSE (IF ShapeOk(Head(items)) THEN <<Head(items)>> ELSE <<>>)
         \o WellShaped(Tail(items))

RECURSIVE SumHeld(_, _)
\* the sum of the quantities of the well-shaped entries of a name, the letter
\* case of the name left aside
SumHeld(items, name) ==
    IF items = <<>> THEN 0
    ELSE (IF ShapeOk(Head(items))
             /\ ToLowerCase(Head(items).material_name) = ToLowerCase(name)
          THEN Head(items).quantity ELSE 0) + SumHeld(Tail(items), name)

\* the answer of the request's route to a list of entries
AnswerTo(items) ==
    IF request.route = "check-possibilities"
    THEN CheckPossibilities([is_array |-> TRUE, items |-> items],
                            recipes, recipe_materials)
    ELSE AnalyzePotentialCrafts([is_array |-> TRUE, items |-> items],
                                recipes, recipe_materials)

\* the per-line reports of entry e of the answer
LineReports(e) ==
    IF request.route = "check-possibilities"
    THEN response.body[e].materials_needed
    ELSE response.body[e].materials_analysis

C13_WitnessRejected ==
    /\ request.route = "analyze-potential-crafts"
    /\ Len(request.body.items) = 2
    /\ request.body.items[1].typeof_quantity = "string"
    /\ request.body.items[2].quantity = -1
    /\ response.status = 400

(***************************************************************************)
(* GET /api/materials/usage-summary                                        *)
(***************************************************************************)
\* LOWER(material_name) LIKE LOWER('%' || q || '%'), for the names and the
\* search strings of the model
LikeLower(material_name, q) ==
    CASE q = "HER" -> ToLowerCase(material_name) = "herb"
      [] q = "ia" -> ToLowerCase(material_name) = "vial"
      [] OTHER -> FALSE

\* the rows the WHERE clause keeps, as positions in the table
UsageWhere(materials, query) ==
    LET byName == query.materialName \notin {"undefined", ""}
        typesArray == TypesArray(query.materialTypes.tokens)
        byTypes == /\ query.materialTypes.present
                   /\ query.materialTypes.tokens # <<"">>
                   /\ Len(typesArray) > 0
    IN  {i \in DOMAIN materials :
            /\ byName => LikeLower(materials[i].material_name, query.materialName)
            /\ byTypes => materials[i].material_type \in Range(typesArray)}

RECURSIVE SumQuantity(_, _)
\* SUM(quantity) over the rows at positions S
SumQuantity(materials, S) ==
    IF S = {} THEN 0
    ELSE LET i == CHOOSE x \in S : TRUE
         IN  materials[i].quantity + SumQuantity(materials, S \ {i})

\* the subquery of priceColumn for a group: MAX over the whole table, NULL when
\* no row qualifies
UsagePrice(materials, name, type) ==
    LET ps == {materials[i].default_npc_price : i \in
                  {j \in DOMAIN materials :
                      /\ ToLowerCase(materials[j].material_name) = ToLowerCase(name)
                      /\ materials[j].material_type = type
                      /\ materials[j].material_type # "profession"}}
    IN  IF ps = {} THEN Null ELSE CHOOSE p \in ps : \A x \in ps : x <= p

\* the order of two names under the BINARY collation of the column
MaterialNameRank(name) ==
    CASE name = "HERB" -> 1
      [] name = "Herb" -> 2
      [] name = "Vial" -> 3
      [] name = "herb" -> 4
      [] OTHER -> 5

\* ORDER BY used_in_recipes_count DESC, total_quantity_needed DESC,
\* material_name ASC : a may come before b
UsageOrder(a, b) ==
    \/ a.used_in_recipes_count > b.used_in_recipes_count
    \/ /\ a.used_in_recipes_count = b.used_in_recipes_count
       /\ \/ a.total_quantity_needed > b.total_quantity_needed
          \/ /\ a.total_quantity_needed = b.total_quantity_needed
             /\ MaterialNameRank(a.material_name) <= MaterialNameRank(b.material_name)

\* GROUP BY material_name, material_type : one row per pair of values, the
\* names compared as stored
UsageGroups(materials, query) ==
    LET kept == UsageWhere(materials, query)
        keys == {<<materials[i].material_name, materials[i].material_type>> :
                    i \in kept}
        of(k) == {i \in kept : /\ materials[i].material_name = k[1]
                               /\ materials[i].material_type = k[2]}
        row(k) == [material_name |-> k[1],
                   material_type |-> k[2],
                   total_quantity_needed |-> SumQuantity(materials, of(k)),
                   used_in_recipes_count |->
                       Cardinality({materials[i].recipe_id : i \in of(k)})]
    IN  IF query.materialName \notin {"undefined", ""}
        THEN {[material_name |-> row(k).material_name,
               material_type |-> row(k).material_type,
               total_quantity_needed |-> row(k).total_quantity_needed,
               used_in_recipes_count |-> row(k).used_in_recipes_count,
               default_npc_price |-> UsagePrice(materials, k[1], k[2])] : k \in keys}
        ELSE {row(k) : k \in keys}

\* the answers the handler can give: the rows of the groups in an order that
\* ORDER BY allows (rows equal in the three sort keys come in any order)
UsageSummary(query, materials) ==
    LET rows == UsageGroups(materials, query)
        n == Cardinality(rows)
    IN  {[status |-> 200, body |-> b] :
            b \in {f \in [1..n -> rows] :
                      /\ \A i, j \in 1..n : i # j => f[i] # f[j]
                      /\ \A i \in 1..n : i < n => UsageOrder(f[i], f[i + 1])}}

UsageQueries ==
    {[materialName |-> mn, materialTypes |-> mt] :
        mn \in {"undefined", "HER"},
        mt \in {[present |-> FALSE, tokens |-> <<>>],
                [present |-> TRUE, tokens |-> <<"Buy">>],
                [present |-> TRUE, tokens |-> <<"">>]}}

\* material lines of two recipes: a material stored under two spellings, and
\* one stored with two types
UsageRows ==
    {Material(r, n, q, "drop", 0) : r \in 1..2, n \in {"Herb", "herb"},
                                    q \in {1, MaxQty}}
    \cup {Material(r, "Vial", 1, t, p) : r \in 1..2, t \in {"buy", "profession"},
                                         p \in 0..MaxPrice}

InitUsage ==
    /\ recipes = <<Recipe(1, "Potion", 1, 0), ElixirRecipe>>
    /\ recipe_materials \in SeqsUpTo(UsageRows, MaxUsageRows)
    /\ request = NoRequest
    /\ response = NoResponse
    /\ NoWrites

GetUsageSummary ==
    /\ request = NoRequest
    /\ \E query \in UsageQueries :
            /\ request' = [route |-> "usage-summary", query |-> query]
            /\ response' \in UsageSummary(query, recipe_materials)
            /\ UNCHANGED <<recipes, recipe_materials, writes>>

NextUsage == GetUsageSummary \/ ExchangeDone

SpecUsage == InitUsage /\ [][NextUsage]_vars

\* an answer to a usage-summary request without filters
UsageServedUnfiltered ==
    /\ request.route = "usage-summary"
    /\ response.status = 200
    /\ request.query.materialName = "undefined"
    /\ ~request.query.materialTypes.present

\* the lines of the table of a name and a type, the case of the name left aside
LinesOfPair(lname, type) ==
    {i \in DOMAIN recipe_materials :
        /\ ToLowerCase(recipe_materials[i].material_name) = lname
        /\ recipe_materials[i].material_type = type}

\* the pairs (lower-cased name, type) of the table
UsagePairs ==
    {<<ToLowerCase(recipe_materials[i].material_name),
       recipe_materials[i].material_type>> : i \in DOMAIN recipe_materials}

\* C14: a usage summary without filters has exactly one row for every pair of
\* a lower-cased material name and a type in the table, with
\* total_quantity_needed the sum of quantity over all lines of the pair and
\* used_in_recipes_count the number of distinct recipe ids among them.
C14_OneRowPerLowerCasedPair ==
    UsageServedUnfiltered =>
        /\ Len(response.body) = Cardinality(UsagePairs)
        /\ \A k \in UsagePairs :
              \E e \in DOMAIN response.body :
                  /\ ToLowerCase(response.body[e].material_name) = k[1]
                  /\ response.body[e].material_type = k[2]
                  /\ response.body[e].total_quantity_needed
                        = SumQuantity(recipe_materials, LinesOfPair(k[1], k[2]))
                  /\ response.body[e].used_in_recipes_count
                        = Cardinality({recipe_materials[i].recipe_id :
                                          i \in LinesOfPair(k[1], k[2])})

\* the same with the names compared as stored: one row for every pair of a
\* material name and a type, with the sum and the count of recipes of its lines
C14_OneRowPerStoredPair ==
    UsageServedUnfiltered =>
        LET pairs == {<<recipe_materials[i].material_name,
                        recipe_materials[i].material_type>> :
                          i \in DOMAIN recipe_materials}
            of(k) == {i \in DOMAIN recipe_materials :
                        /\ recipe_materials[i].material_name = k[1]
                        /\ recipe_materials[i].material_type = k[2]}
        IN  /\ Len(response.body) = Cardinality(pairs)
            /\ \A k \in pairs :
                  \E e \in DOMAIN response.body :
                      /\ response.body[e].material_name = k[1]
                      /\ response.body[e].material_type = k[2]
                      /\ response.body[e].total_quantity_needed
                            = SumQuantity(recipe_materials, of(k))
                      /\ response.body[e].used_in_recipes_count
                            = Cardinality({recipe_materials[i].recipe_id : i \in of(k)})

(***************************************************************************)
(* POST /api/items, PUT /api/items/:id, DELETE /api/items/:id              *)
(*                                                                         *)
(* A handler issues its statements one after the other, the next one from   *)
(* the callback of the one before; every statement runs by itself on the    *)
(* shared connection, and the statements of other requests run in between.  *)
(* BEGIN, COMMIT and ROLLBACK are issued without callback: when they fail    *)
(* (a transaction is already open, or none is) nothing notices.             *)
(***************************************************************************)
\* db init issues no PRAGMA foreign_keys = ON, so the connection keeps the
\* default of SQLite and REFERENCES ... ON DELETE CASCADE is not enforced
ForeignKeysOn == FALSE

\* material lines of a request body: one the table accepts, one whose
\* material_type passes the handler's test but not the CHECK of the table
GoodLine == [material_name |-> "Vial", quantity |-> 1, material_type |-> "buy"]
BadLine == [material_name |-> "Herb", quantity |-> 1, material_type |-> "gem"]

WritePayloads == {<<GoodLine>>, <<GoodLine, BadLine>>}

\* names of a request body; the empty one fails the handler's test
WriteNames == {"Potion", "Elixir", ""}

\* ids of the path: of a recipe, of none, and not a number
WriteIds == {1, 2, NaN}

\* a request that passed the handler's tests and issued BEGIN TRANSACTION
Running(op, id, name, materials) ==
    [op |-> op, pc |-> "begin", id |-> id, name |-> name, materials |-> materials,
     ran |-> 0, materialErrorOccurred |-> FALSE, response |-> NoResponse]

\* a request answered by the handler's tests
Refused(op) == [op |-> op, pc |-> "done", response |-> [status |-> 400]]

\* the history of committed catalogues takes in the one after the step
Track ==
    committed_seen' = committed_seen
        \cup {CommittedOf(recipes', recipe_materials', transaction')}

\* the callback of stmtMaterial.finalize
Finalized(slot, success) ==
    IF slot.materialErrorOccurred
    THEN [slot EXCEPT !.pc = "rollback", !.response = [status |-> 500]]
    ELSE [slot EXCEPT !.pc = "commit",
                      !.response = [status |-> success, id |-> slot.id]]

\* after a statement of the request: the material inserts follow, or the
\* callback of finalize when there is none left
Continue(slot, success) ==
    IF slot.ran = Len(slot.materials) THEN Finalized(slot, success)
    ELSE [slot EXCEPT !.pc = "materials"]

SuccessStatus(op) == IF op = "create" THEN 201 ELSE 200

\* POST /api/items : the handler
PostItems(w) ==
    /\ inflight[w].pc = "free"
    /\ \E name \in WriteNames, materials \in WritePayloads :
          inflight' = [inflight EXCEPT ![w] =
                          IF name = "" THEN Refused("create")
                          ELSE Running("create", 0, name, materials)]
    /\ UNCHANGED <<recipes, recipe_materials, request, response,
                   sqlite_sequence, transaction, committed_seen>>

\* PUT /api/items/:id : the handler
PutItems(w) ==
    /\ inflight[w].pc = "free"
    /\ \E id \in WriteIds, name \in WriteNames, materials \in WritePayloads :
          inflight' = [inflight EXCEPT ![w] =
                          IF id = NaN \/ name = "" THEN Refused("update")
                          ELSE Running("update", id, name, materials)]
    /\ UNCHANGED <<recipes, recipe_materials, request, response,
                   sqlite_sequence, transaction, committed_seen>>

\* DELETE /api/items/:id : the handler
DeleteItems(w) ==
    /\ inflight[w].pc = "free"
    /\ \E id \in WriteIds :
          inflight' = [inflight EXCEPT ![w] =
                          IF id = NaN THEN Refused("delete")
                          ELSE [op |-> "delete", pc |-> "delete-recipe", id |-> id,
                                response |-> NoResponse]]
    /\ UNCHANGED <<recipes, recipe_materials, request, response,
                   sqlite_sequence, transaction, committed_seen>>

\* BEGIN TRANSACTION
BeginTransaction(w) ==
    /\ inflight[w].pc = "begin"
    /\ transaction' =
          IF ~transaction.open
          THEN [open |-> TRUE, recipes |-> recipes, recipe_materials |-> recipe_materials,
                sqlite_sequence |-> sqlite_sequence]
          ELSE transaction
    /\ inflight' = [inflight EXCEPT ![w].pc = "recipe"]
    /\ UNCHANGED <<recipes, recipe_materials, request, response,
                   sqlite_sequence, committed_seen>>

\* INSERT INTO recipes and its callback
InsertRecipe(w) ==
    LET slot == inflight[w]
        recipeId == sqlite_sequence + 1
    IN  /\ slot.pc = "recipe"
        /\ slot.op = "create"
        /\ IF \E k \in DOMAIN recipes : recipes[k].name = slot.name
           THEN /\ inflight' = [inflight EXCEPT ![w] =
                       [slot EXCEPT !.pc = "rollback", !.response = [status |-> 500]]]
                /\ UNCHANGED <<recipes, sqlite_sequence>>
           ELSE /\ recipes' = Append(recipes, Recipe(recipeId, slot.name, 1, 0))
                /\ sqlite_sequence' = recipeId
                /\ inflight' = [inflight EXCEPT ![w] =
                       Continue([slot EXCEPT !.id = recipeId], 201)]
        /\ UNCHANGED <<recipe_materials, request, response, transaction>>
        /\ Track

\* UPDATE recipes SET ... WHERE id = ? and its callback
UpdateRecipe(w) ==
    LET slot == inflight[w]
    IN  /\ slot.pc = "recipe"
        /\ slot.op = "update"
        /\ IF /\ \E k \in DOMAIN recipes : recipes[k].id = slot.id
              /\ \E k \in DOMAIN recipes :
                    recipes[k].name = slot.name /\ recipes[k].id # slot.id
           THEN /\ inflight' = [inflight EXCEPT ![w] =
                       [slot EXCEPT !.pc = "rollback", !.response = [status |-> 500]]]
                /\ UNCHANGED recipes
           ELSE IF ~\E k \in DOMAIN recipes : recipes[k].id = slot.id
           THEN /\ inflight' = [inflight EXCEPT ![w] =
                       [slot EXCEPT !.pc = "rollback", !.response = [status |-> 404]]]
                /\ UNCHANGED recipes
           ELSE /\ recipes' = [k \in DOMAIN recipes |->
                                  IF recipes[k].id = slot.id
                                  THEN Recipe(slot.id, slot.name, 1, 0)
                                  ELSE recipes[k]]
                /\ inflight' = [inflight EXCEPT ![w].pc = "delete-materials"]
        /\ UNCHANGED <<recipe_materials, request, response,
                       sqlite_sequence, transaction>>
        /\ Track

\* DELETE FROM recipe_materials WHERE recipe_id = ? and its callback
DeleteMaterials(w) ==
    LET slot == inflight[w]
    IN  /\ slot.pc = "delete-materials"
        /\ recipe_materials' =
              SelectSeq(recipe_materials, LAMBDA m : m.recipe_id # slot.id)
        /\ inflight' = [inflight EXCEPT ![w] = Continue(slot, 200)]
        /\ UNCHANGED <<recipes, request, response, sqlite_sequence, transaction>>
        /\ Track

\* one stmtMaterial.run and its callback, followed by the callback of
\* finalize after the last one
InsertMaterial(w) ==
    LET slot == inflight[w]
        mat == slot.materials[slot.ran + 1]
        runErr == mat.material_type \notin MaterialTypes
        after == [slot EXCEPT !.ran = slot.ran + 1,
                              !.materialErrorOccurred = slot.materialErrorOccurred
                                                           \/ runErr]
    IN  /\ slot.pc = "materials"
        /\ recipe_materials' =
              IF runErr THEN recipe_materials
              ELSE Append(recipe_materials,
                          Material(slot.id, mat.material_name, mat.quantity,
                                   mat.material_type, 0))
        /\ inflight' = [inflight EXCEPT ![w] = Continue(after, SuccessStatus(slot.op))]
        /\ UNCHANGED <<recipes, request, response, sqlite_sequence, transaction>>
        /\ Track

\* COMMIT
Commit(w) ==
    /\ inflight[w].pc = "commit"
    /\ transaction' = NoTransaction
    /\ inflight' = [inflight EXCEPT ![w].pc = "done"]
    /\ UNCHANGED <<recipes, recipe_materials, request, response, sqlite_sequence>>
    /\ Track

\* ROLLBACK
Rollback(w) ==
    /\ inflight[w].pc = "rollback"
    /\ IF ~transaction.open
       THEN UNCHANGED <<recipes, recipe_materials, sqlite_sequence>>
       ELSE /\ recipes' = transaction.recipes
            /\ recipe_materials' = transaction.recipe_materials
            /\ sqlite_sequence' = transaction.sqlite_sequence
    /\ transaction' = NoTransaction
    /\ inflight' = [inflight EXCEPT ![w].pc = "done"]
    /\ UNCHANGED <<request, response>>
    /\ Track

\* DELETE FROM recipes WHERE id = ? and its callback
DeleteRecipe(w) ==
    LET slot == inflight[w]
        found == \E k \in DOMAIN recipes : recipes[k].id = slot.id
    IN  /\ slot.pc = "delete-recipe"
        /\ recipes' = SelectSeq(recipes, LAMBDA r : r.id # slot.id)
        /\ recipe_materials' =
              IF ForeignKeysOn
              THEN SelectSeq(recipe_materials, LAMBDA m : m.recipe_id # slot.id)
              ELSE recipe_materials
        /\ inflight' = [inflight EXCEPT ![w] =
               [slot EXCEPT !.pc = "done",
                            !.response = [status |-> IF found THEN 200 ELSE 404]]]
        /\ UNCHANGED <<request, response, sqlite_sequence, transaction>>
        /\ Track

\* the steps of the write request at place w
WriteStep(w) ==
    \/ PostItems(w) \/ PutItems(w) \/ DeleteItems(w)
    \/ BeginTransaction(w) \/ InsertRecipe(w) \/ UpdateRecipe(w)
    \/ DeleteMaterials(w) \/ InsertMaterial(w)
    \/ Commit(w) \/ Rollback(w) \/ DeleteRecipe(w)

\* the catalogue the write requests start from: "Potion" with one line
WriteCatalogue ==
    [recipes |-> <<Recipe(1, "Potion", 1, 0)>>,
     lines |-> << <<Material(0, "Herb", 1, "drop", 0)>> >>]

InitWrite ==
    /\ Holds(WriteCatalogue)
    /\ request = NoRequest
    /\ response = NoResponse
    /\ NoWrites

NextWrite == \E w \in Writers : WriteStep(w)

\* up to two write requests in flight on the shared connection
SpecWrite == InitWrite /\ [][NextWrite]_vars

\* no write request is being worked on and no transaction is open
Quiescent ==
    /\ \A w \in Writers : inflight[w].pc \in {"free", "done"}
    /\ ~transaction.open

\* C15: once the create, update and delete requests issued so far are over,
\* every stored material line refers to a stored recipe, and no line refers to
\* a recipe whose delete request was answered with success.
C15_LinesOwned ==
    Quiescent =>
        /\ \A i \in DOMAIN recipe_materials :
              \E k \in DOMAIN recipes :
                  recipes[k].id = recipe_materials[i].recipe_id
        /\ \A w \in Writers :
              (inflight[w].op = "delete" /\ inflight[w].response.status = 200)
              => LinesOf(inflight[w].id) = {}

(***************************************************************************)
(* check-possibilities while a write request is in flight: the handler      *)
(* reads the two tables with two statements, the second one issued from the *)
(* callback of the first.                                                   *)
(***************************************************************************)
SnapshotBodies ==
    {[is_array |-> TRUE, items |-> <<>>],
     [is_array |-> TRUE,
      items |-> <<[material_name |-> "Vial", typeof_quantity |-> "number",
                   quantity |-> 1]>>],
     [is_array |-> FALSE, items |-> <<>>]}

\* the handler up to the callback of db.all(sqlRecipes): the answer when the
\* body is refused or there is no recipe, otherwise the rows are kept
SelectRecipes ==
    /\ request = NoRequest
    /\ \E body \in SnapshotBodies :
          LET early == CheckPossibilities(body, recipes, <<>>)
          IN  IF early.status = 400 \/ recipes = <<>>
              THEN /\ request' = [route |-> "check-possibilities", body |-> body]
                   /\ response' = early
              ELSE /\ request' = [route |-> "check-possibilities", body |-> body,
                                   recipes |-> recipes, allMaterials |-> <<>>]
                   /\ response' = NoResponse
    /\ UNCHANGED <<recipes, recipe_materials, writes>>

\* the callback of db.all(sqlAllRecipeMaterials): the answer is computed from
\* the rows of the two reads
SelectAllRecipeMaterials ==
    /\ request # NoRequest
    /\ response = NoResponse
    /\ request' = [request EXCEPT !.allMaterials = recipe_materials]
    /\ response' = CheckPossibilities(request.body, request.recipes, recipe_materials)
    /\ UNCHANGED <<recipes, recipe_materials, writes>>

NextSnapshot ==
    WriteStep("w1") \/ SelectRecipes \/ SelectAllRecipeMaterials \/ ExchangeDone

\* one write request and check-possibilities requests on the shared connection
SpecSnapshot == InitWrite /\ [][NextSnapshot]_vars

\* C16: the recipe rows and the material rows from which an analytical answer
\* was computed are together one catalogue that was committed at some time:
\* not one of a transaction in progress or rolled back, and not the recipes of
\* one committed catalogue with the lines of another.
C16_ConsistentSnapshot ==
    (/\ Quiescent
     /\ request.route = "check-possibilities"
     /\ response.status = 200
     /\ "recipes" \in DOMAIN request)
    => [recipes |-> request.recipes, recipe_materials |-> request.allMaterials]
          \in committed_seen

\* C17: every entry of a check-possibilities answer with a bounded count has
\* total_items_producible = max_crafts_possible * quantity_produced of its
\* recipe, and one materials_needed element per line of the recipe, with
\* total_quantity_needed_for_max_crafts = quantity * max_crafts_possible and
\* user_has_quantity the quantity held of the line's material.
C17_FeasibilityTotals ==
    CheckServed =>
        \A e \in DOMAIN response.body :
            LET it == response.body[e]
                max == it.max_crafts_possible
            IN  max # Null =>
                /\ \E k \in DOMAIN recipes :
                      /\ recipes[k].id = it.recipe_id
                      /\ it.quantity_produced_per_craft = recipes[k].quantity_produced
                      /\ it.total_items_producible = max * recipes[k].quantity_produced
                /\ Len(it.materials_needed) = Cardinality(LinesOf(it.recipe_id))
                /\ \A j \in DOMAIN it.materials_needed :
                      LET line == recipe_materials[NthLine(it.recipe_id, j)]
                          m == it.materials_needed[j]
                      IN  /\ m.material_name = line.material_name
                          /\ m.quantity_per_craft = line.quantity
                          /\ m.total_quantity_needed_for_max_crafts
                                = line.quantity * max
                          /\ m.user_has_quantity = Held(line.material_name)

\* Potion (2 per craft) needs Herb 2 and Vial 1; with Herb 7 and Vial 3 held
\* it can be crafted 3 times: 6 items, 6 of Herb and 3 of Vial
C17_Witness ==
    /\ CheckServed
    /\ request.body.items = LargeInventory
    /\ Len(recipe_materials) = 2
    /\ recipe_materials[1].material_name = "Herb" /\ recipe_materials[1].quantity = 2
    /\ recipe_materials[2].material_name = "Vial" /\ recipe_materials[2].quantity = 1
    /\ Len(response.body) = 1
    /\ response.body[1].max_crafts_possible = 3
    /\ response.body[1].total_items_producible = 6
    /\ response.body[1].materials_needed[1].total_quantity_needed_for_max_crafts = 6
    /\ response.body[1].materials_needed[1].user_has_quantity = 7
    /\ response.body[1].materials_needed[2].total_quantity_needed_for_max_crafts = 3
    /\ response.body[1].materials_needed[2].user_has_quantity = 3

RECURSIVE SumQuantityOfName(_, _)
\* the sum of quantity over the table rows at positions S
SumQuantityOfName(S, name) ==
    IF S = {} THEN 0
    ELSE LET i == CHOOSE x \in S : TRUE
         IN  (IF ToLowerCase(recipe_materials[i].material_name) = ToLowerCase(name)
              THEN recipe_materials[i].quantity ELSE 0)
             + SumQuantityOfName(S \ {i}, name)

\* C18: for every entry of a check-possibilities answer with a bounded count
\* and every material of its recipe, max_crafts_possible times the quantity
\* the recipe needs of that material (the sum over all its lines of that name,
\* case-insensitively) is at most the quantity held.
C18_Affordable ==
    CheckServed =>
        \A e \in DOMAIN response.body :
            LET it == response.body[e]
            IN  it.max_crafts_possible # Null =>
                \A i \in LinesOf(it.recipe_id) :
                    it.max_crafts_possible
                        * SumQuantityOfName(LinesOf(it.recipe_id),
                                            recipe_materials[i].material_name)
                    <= Held(recipe_materials[i].material_name)

\* the same for the recipes that name every material once
C18_AffordableWithoutRepeats ==
    CheckServed =>
        \A e \in DOMAIN response.body :
            LET it == response.body[e]
            IN  (/\ it.max_crafts_possible # Null
                 /\ \A i, j \in LinesOf(it.recipe_id) :
                       i # j => ToLowerCase(recipe_materials[i].material_name)
                                   # ToLowerCase(recipe_materials[j].material_name))
                => \A i \in LinesOf(it.recipe_id) :
                       it.max_crafts_possible * recipe_materials[i].quantity
                           <= Held(recipe_materials[i].material_name)

\* the request at place w was answered with success
Succeeded(w) ==
    /\ inflight[w].pc = "done"
    /\ inflight[w].response.status \in {200, 201}

\* the id of the recipe a create or update request is about, counted from the
\* catalogue the requests started from
TargetId(slot) ==
    IF slot.op = "create" THEN MaxRecipeId(WriteCatalogue.recipes) + 1
    ELSE slot.id

\* the tables after the request of slot alone was carried out on the
\* catalogue the requests started from
RecipesAfter(slot) ==
    LET before == WriteCatalogue.recipes
        row == Recipe(TargetId(slot), slot.name, 1, 0)
    IN  IF slot.op = "create" THEN Append(before, row)
        ELSE [k \in DOMAIN before |->
                IF before[k].id = slot.id THEN row ELSE before[k]]

MaterialsAfter(slot) ==
    LET before == RowsOf(WriteCatalogue.lines, 1)
    IN  SelectSeq(before, LAMBDA m : m.recipe_id # TargetId(slot))
        \o [j \in DOMAIN slot.materials |->
                Material(TargetId(slot), slot.materials[j].material_name,
                         slot.materials[j].quantity,
                         slot.materials[j].material_type, 0)]

\* C19: once the create and update requests in flight are over (one or two of
\* them, on the shared connection), the tables are as they were when no
\* request was answered with success, and when exactly one was they hold the
\* catalogue with that request's recipe row and all its material lines, the
\* answer naming the recipe's id.
C19_WriteAtomicity ==
    (/\ Quiescent
     /\ \A w \in Writers : inflight[w].op \in {"none", "create", "update"})
    => /\ (\A w \in Writers : ~Succeeded(w))
            => Holds(WriteCatalogue)
       /\ \A w \in Writers :
             (Succeeded(w) /\ \A v \in Writers \ {w} : ~Succeeded(v))
             => /\ recipes = RecipesAfter(inflight[w])
                /\ recipe_materials = MaterialsAfter(inflight[w])
                /\ inflight[w].response.id = TargetId(inflight[w])

============================================================================
